---- MODULE Spec2Model ----
(***************************************************************************)
(* A model of src/snake.py: the Snake dataclass (construction with         *)
(* __post_init__, eat_apple, the description property, _advance_color)     *)
(* and the driver run_simulation.                                          *)
(*                                                                         *)
(* A Snake object is a record with the fields length, girth, color,        *)
(* color_cycle and color_index (Python's _color_cycle and _color_index).   *)
(* Every method is an operator from the object (and its keyword            *)
(* arguments) to a record [self, ret, raised]: the object as the call      *)
(* leaves it, the value returned and the exception raised.  Python         *)
(* integers are unbounded, so no width is modelled.                        *)
(*                                                                         *)
(* Two specifications are given.  Spec is one Snake under any sequence of  *)
(* calls by a client: construction, eat_apple and reads of description.    *)
(* RunSpec is one execution of run_simulation, statement by statement.     *)
(***************************************************************************)
EXTENDS Integers, Sequences, FiniteSets, TLC

VARIABLES
    snake,          \* the Snake object, or None when no object exists
    raised,         \* the exception the last call raised, or NoError
    last,           \* the last call made: its name, keyword arguments, return value
    init,           \* history: the object as construction left it
    feeds,          \* history: the number of eat_apple calls that returned normally
    all_default,    \* history: every such call so far was made with no arguments
    pc,             \* run_simulation: the statement to execute next
    apples,         \* run_simulation: parameter apples
    length_gain,    \* run_simulation: parameter length_gain
    girth_gain,     \* run_simulation: parameter girth_gain
    apple_number,   \* run_simulation: the loop variable (0 before the first iteration)
    output          \* run_simulation: the lines printed so far

vars == <<snake, raised, last, init, feeds, all_default,
          pc, apples, length_gain, girth_gain, apple_number, output>>

clientVars == <<last, init, all_default>>
runVars == <<pc, apples, length_gain, girth_gain, apple_number, output>>

----------------------------------------------------------------------------
(* Bounds of the model *)

MaxFeeds == 4       \* successful eat_apple calls made by the client
MaxGain == 3        \* largest gain passed to eat_apple
MaxApples == 5      \* largest apples count given to run_simulation

----------------------------------------------------------------------------
(* Values *)

None == <<>>
NoError == [type |-> "none", msg |-> ""]

ValueError(m) == [type |-> "ValueError", msg |-> m]

Range(t) == {t[i] : i \in DOMAIN t}

RECURSIVE Join(_, _)
\* sep.join(t) for a tuple of strings
Join(sep, t) ==
    IF Len(t) = 0 THEN ""
    ELSE IF Len(t) = 1 THEN t[1]
    ELSE t[1] \o sep \o Join(sep, Tail(t))

\* t.index(v): the 0-based position of the first occurrence of v in t
Index(t, v) ==
    CHOOSE i \in 0..(Len(t) - 1) :
        /\ t[i + 1] = v
        /\ \A j \in 0..(i - 1) : t[j + 1] # v

\* t[i] for a 0-based Python index i
At(t, i) == t[i + 1]

\* the value of keyword argument name, or its default when omitted
Arg(kwargs, name, default) ==
    IF name \in DOMAIN kwargs THEN kwargs[name] ELSE default

----------------------------------------------------------------------------
(* class Snake *)

color_default == "green"
color_cycle_default == <<"green", "yellow", "red", "blue">>
length_gain_default == 1
girth_gain_default == 1

post_init_zero(self) ==
    IF self.color \notin Range(self.color_cycle)
    THEN [self |-> self, ret |-> None,
          raised |-> ValueError("Initial color must be one of "
                        \o Join(", ", self.color_cycle)
                        \o "; got '" \o self.color \o "'.")]
    ELSE [self |-> [length |-> self.length, girth |-> self.girth,
                    color |-> self.color, color_cycle |-> self.color_cycle,
                    color_index |-> 0],
          ret |-> None, raised |-> NoError]

\* Snake.__post_init__
post_init(self) ==
    IF self.color \notin Range(self.color_cycle)
    THEN [self |-> self, ret |-> None,
          raised |-> ValueError("Initial color must be one of "
                        \o Join(", ", self.color_cycle)
                        \o "; got '" \o self.color \o "'.")]
    ELSE [self |-> [length |-> self.length, girth |-> self.girth,
                    color |-> self.color, color_cycle |-> self.color_cycle,
                    color_index |-> Index(self.color_cycle, self.color)],
          ret |-> None, raised |-> NoError]

\* Snake(**kwargs): the dataclass __init__ assigns the fields, then runs
\* __post_init__; an exception leaves the caller with no object
Snake(kwargs) ==
    LET self == [length |-> kwargs["length"], girth |-> kwargs["girth"],
                 color |-> Arg(kwargs, "color", color_default),
                 color_cycle |-> color_cycle_default]
        r == post_init(self)
    IN  IF r.raised # NoError
        THEN [self |-> None, ret |-> None, raised |-> r.raised]
        ELSE [self |-> r.self, ret |-> r.self, raised |-> NoError]

advance_color_stale(self) ==
    [self EXCEPT !.color_index = (self.color_index + 1) % Len(self.color_cycle),
                 !.color = At(self.color_cycle, self.color_index)]

advance_color_skip(self) ==
    LET i == (self.color_index + 2) % Len(self.color_cycle)
    IN  [self EXCEPT !.color_index = i, !.color = At(self.color_cycle, i)]

\* Snake._advance_color
advance_color(self) ==
    LET i == (self.color_index + 1) % Len(self.color_cycle)
    IN  [self EXCEPT !.color_index = i, !.color = At(self.color_cycle, i)]

eat_apple_and(self, kwargs) ==
    LET lg == Arg(kwargs, "length_gain", length_gain_default)
        gg == Arg(kwargs, "girth_gain", girth_gain_default)
    IN  IF lg < 0 /\ gg < 0
        THEN [self |-> self, ret |-> None,
              raised |-> ValueError("Growth values must be non-negative")]
        ELSE [self |-> advance_color([self EXCEPT !.length = @ + lg,
                                                  !.girth = @ + gg]),
              ret |-> None, raised |-> NoError]

eat_apple_swapped(self, kwargs) ==
    LET lg == Arg(kwargs, "length_gain", length_gain_default)
        gg == Arg(kwargs, "girth_gain", girth_gain_default)
    IN  IF lg < 0 \/ gg < 0
        THEN [self |-> self, ret |-> None,
              raised |-> ValueError("Growth values must be non-negative")]
        ELSE [self |-> advance_color([self EXCEPT !.length = @ + gg,
                                                  !.girth = @ + lg]),
              ret |-> None, raised |-> NoError]

eat_apple_late_check(self, kwargs) ==
    LET lg == Arg(kwargs, "length_gain", length_gain_default)
        gg == Arg(kwargs, "girth_gain", girth_gain_default)
        grown == [self EXCEPT !.length = @ + lg, !.girth = @ + gg]
    IN  IF lg < 0 \/ gg < 0
        THEN [self |-> grown, ret |-> None,
              raised |-> ValueError("Growth values must be non-negative")]
        ELSE [self |-> advance_color(grown), ret |-> None, raised |-> NoError]

\* Snake.eat_apple
eat_apple(self, kwargs) ==
    LET lg == Arg(kwargs, "length_gain", length_gain_default)
        gg == Arg(kwargs, "girth_gain", girth_gain_default)
    IN  IF lg < 0 \/ gg < 0
        THEN [self |-> self, ret |-> None,
              raised |-> ValueError("Growth values must be non-negative")]
        ELSE [self |-> advance_color([self EXCEPT !.length = @ + lg,
                                                  !.girth = @ + gg]),
              ret |-> None, raised |-> NoError]

description_advancing(self) ==
    [self |-> advance_color(self),
     ret |-> "The snake is now " \o ToString(self.length) \o " units long, "
             \o ToString(self.girth) \o " units around, and "
             \o self.color \o ".",
     raised |-> NoError]

description_swapped(self) ==
    [self |-> self,
     ret |-> "The snake is now " \o ToString(self.girth) \o " units long, "
             \o ToString(self.length) \o " units around, and "
             \o self.color \o ".",
     raised |-> NoError]

\* Snake.description (a property)
description(self) ==
    [self |-> self,
     ret |-> "The snake is now " \o ToString(self.length) \o " units long, "
             \o ToString(self.girth) \o " units around, and "
             \o self.color \o ".",
     raised |-> NoError]

----------------------------------------------------------------------------
(* A client of one Snake *)

Gains == (-1)..MaxGain
InitSizes == {<<5, 2>>, <<-1, -2>>}
ColorArgs == Range(color_cycle_default) \cup {"purple"}

\* length and girth are required, color may be omitted
SnakeKwargs ==
    {[length |-> s[1], girth |-> s[2]] : s \in InitSizes}
    \cup {[length |-> s[1], girth |-> s[2], color |-> c] :
            s \in InitSizes, c \in ColorArgs}

\* both gains passed, or both omitted
EatAppleKwargs ==
    [{"length_gain", "girth_gain"} -> Gains] \cup {[n \in {} |-> 0]}

Init ==
    /\ snake = None
    /\ raised = NoError
    /\ last = [op |-> "none"]
    /\ init = None
    /\ feeds = 0
    /\ all_default = TRUE
    /\ pc = "client"
    /\ apples = 0
    /\ length_gain = 0
    /\ girth_gain = 0
    /\ apple_number = 0
    /\ output = <<>>

\* snake = Snake(**kwargs)
CallSnake ==
    /\ last.op = "none"
    /\ \E kwargs \in SnakeKwargs :
        LET r == Snake(kwargs)
        IN  /\ snake' = r.self
            /\ raised' = r.raised
            /\ init' = r.self
            /\ last' = [op |-> "Snake", kwargs |-> kwargs]
    /\ UNCHANGED <<feeds, all_default>>
    /\ UNCHANGED runVars

\* snake.eat_apple(**kwargs)
CallEatApple ==
    /\ snake # None
    /\ feeds < MaxFeeds
    /\ \E kwargs \in EatAppleKwargs :
        LET r == eat_apple(snake, kwargs)
        IN  /\ snake' = r.self
            /\ raised' = r.raised
            /\ last' = [op |-> "eat_apple", kwargs |-> kwargs]
            /\ feeds' = IF r.raised = NoError THEN feeds + 1 ELSE feeds
            /\ all_default' = IF r.raised = NoError
                              THEN all_default /\ DOMAIN kwargs = {}
                              ELSE all_default
    /\ UNCHANGED init
    /\ UNCHANGED runVars

\* snake.description
CallDescription ==
    /\ snake # None
    /\ LET r == description(snake)
       IN  /\ snake' = r.self
           /\ raised' = r.raised
           /\ last' = [op |-> "description", ret |-> r.ret]
    /\ UNCHANGED <<init, feeds, all_default>>
    /\ UNCHANGED runVars

Next == CallSnake \/ CallEatApple \/ CallDescription

Spec == Init /\ [][Next]_vars

----------------------------------------------------------------------------
(* run_simulation(apples, length_gain, girth_gain), one statement per step *)

ApplesArgs == (-1)..MaxApples

RunInit ==
    /\ snake = None
    /\ raised = NoError
    /\ last = [op |-> "none"]
    /\ init = None
    /\ feeds = 0
    /\ all_default = TRUE
    /\ pc = "construct"
    /\ apples \in ApplesArgs
    /\ length_gain \in Gains
    /\ girth_gain \in Gains
    /\ apple_number = 0
    /\ output = <<>>

\* print(*args): the arguments joined by one space, as one line of output
print(args) == Append(output, Join(" ", args))

\* snake = Snake(length=5, girth=2); print("Initial:", snake.description)
RunConstruct ==
    /\ pc = "construct"
    /\ LET r == Snake([length |-> 5, girth |-> 2])
       IN  IF r.raised # NoError
           THEN /\ raised' = r.raised
                /\ pc' = "failed"
                /\ UNCHANGED <<snake, output>>
           ELSE LET d == description(r.self)
                IN  /\ snake' = d.self
                    /\ raised' = d.raised
                    /\ output' = print(<<"Initial:", d.ret>>)
                    /\ pc' = "for"
    /\ UNCHANGED <<feeds, apples, length_gain, girth_gain, apple_number>>
    /\ UNCHANGED clientVars

RunForShort ==
    /\ pc = "for"
    /\ IF apple_number + 1 < apples
       THEN /\ apple_number' = apple_number + 1
            /\ pc' = "eat"
       ELSE /\ pc' = "done"
            /\ UNCHANGED apple_number
    /\ UNCHANGED <<snake, raised, feeds, apples, length_gain, girth_gain, output>>
    /\ UNCHANGED clientVars

\* for apple_number in range(1, apples + 1): the next value, or the end of the loop
RunFor ==
    /\ pc = "for"
    /\ IF apple_number + 1 < apples + 1
       THEN /\ apple_number' = apple_number + 1
            /\ pc' = "eat"
       ELSE /\ pc' = "done"
            /\ UNCHANGED apple_number
    /\ UNCHANGED <<snake, raised, feeds, apples, length_gain, girth_gain, output>>
    /\ UNCHANGED clientVars

\* snake.eat_apple(length_gain=length_gain, girth_gain=girth_gain); an exception
\* is not caught and ends the run
RunEat ==
    /\ pc = "eat"
    /\ LET r == eat_apple(snake, [length_gain |-> length_gain,
                                  girth_gain |-> girth_gain])
       IN  /\ snake' = r.self
           /\ raised' = r.raised
           /\ feeds' = IF r.raised = NoError THEN feeds + 1 ELSE feeds
           /\ pc' = IF r.raised = NoError THEN "print" ELSE "failed"
    /\ UNCHANGED <<apples, length_gain, girth_gain, apple_number, output>>
    /\ UNCHANGED clientVars

\* print(f"After apple {apple_number}:", snake.description)
RunPrint ==
    /\ pc = "print"
    /\ LET d == description(snake)
       IN  /\ snake' = d.self
           /\ raised' = d.raised
           /\ output' = print(<<"After apple " \o ToString(apple_number) \o ":",
                                d.ret>>)
    /\ pc' = "for"
    /\ UNCHANGED <<feeds, apples, length_gain, girth_gain, apple_number>>
    /\ UNCHANGED clientVars

RunNext == RunConstruct \/ RunFor \/ RunEat \/ RunPrint

\* the interpreter executes the statements of run_simulation one after the
\* other until the function returns or an exception leaves it
RunSpec == RunInit /\ [][RunNext]_vars /\ WF_vars(RunNext)

----------------------------------------------------------------------------
(* Properties of one Snake under a client (Spec) *)

\* C1: in every state of a Snake constructed with any integer length and
\* girth and fed any number of times, length >= 0 and girth >= 0.
C1_NonNegative ==
    snake # None => (snake.length >= 0 /\ snake.girth >= 0)

\* C2: eat_apple called with length_gain < 0 or girth_gain < 0, whatever the
\* other gain is, raises ValueError and leaves length, girth, color and the
\* color index exactly as they were before the call.
C2_Rejection ==
    [][(/\ last'.op = "eat_apple"
        /\ \/ Arg(last'.kwargs, "length_gain", 1) < 0
           \/ Arg(last'.kwargs, "girth_gain", 1) < 0)
       => (/\ raised'.type = "ValueError"
           /\ snake'.length = snake.length
           /\ snake'.girth = snake.girth
           /\ snake'.color = snake.color
           /\ snake'.color_index = snake.color_index
           /\ snake' = snake)]_vars

C2_Witness ==
    /\ last.op = "eat_apple"
    /\ Arg(last.kwargs, "length_gain", 1) = 0
    /\ Arg(last.kwargs, "girth_gain", 1) = -1
    /\ raised.type = "ValueError"
    /\ feeds = 1
    /\ snake.color = "yellow"

\* C3: after k successful eat_apple calls the color is the entry of the cycle
\* (green, yellow, red, blue) at position (initial index + k) mod 4, whatever
\* the gains were; from length 5, girth 2, green, four calls with the default
\* gains give length 9, girth 6 and green again.
C3_ColorCycling ==
    snake # None =>
        /\ snake.color =
             <<"green", "yellow", "red", "blue">>[((init.color_index + feeds) % 4) + 1]
        /\ (/\ init.length = 5 /\ init.girth = 2 /\ init.color = "green"
            /\ feeds = 4 /\ all_default)
           => (snake.length = 9 /\ snake.girth = 6 /\ snake.color = "green")

C3_Witness ==
    /\ snake # None
    /\ init.length = 5 /\ init.girth = 2 /\ init.color = "green"
    /\ feeds = 4
    /\ all_default
    /\ snake.length = 9
    /\ snake.color = "green"

\* C4: for all length_gain >= 0 and girth_gain >= 0 and every Snake, one
\* eat_apple call returns normally with length increased by length_gain and
\* girth by girth_gain, and the color one step further in the cycle (also
\* when a gain is zero); from length 5, girth 2, green, eat_apple(2, 3) gives
\* length 7, girth 5, yellow.
C4_Growth ==
    [][(/\ last'.op = "eat_apple"
        /\ Arg(last'.kwargs, "length_gain", 1) >= 0
        /\ Arg(last'.kwargs, "girth_gain", 1) >= 0)
       => (/\ raised' = NoError
           /\ snake'.length = snake.length + Arg(last'.kwargs, "length_gain", 1)
           /\ snake'.girth = snake.girth + Arg(last'.kwargs, "girth_gain", 1)
           /\ snake'.color =
                <<"green", "yellow", "red", "blue">>[((snake.color_index + 1) % 4) + 1]
           /\ snake'.color # snake.color
           /\ (/\ snake.length = 5 /\ snake.girth = 2 /\ snake.color = "green"
               /\ last'.kwargs = [length_gain |-> 2, girth_gain |-> 3])
              => (/\ snake'.length = 7 /\ snake'.girth = 5
                  /\ snake'.color = "yellow"))]_vars

C4_Witness ==
    /\ last.op = "eat_apple"
    /\ last.kwargs = [length_gain |-> 2, girth_gain |-> 3]
    /\ init.length = 5 /\ init.girth = 2 /\ init.color = "green"
    /\ feeds = 1
    /\ snake.length = 7 /\ snake.girth = 5 /\ snake.color = "yellow"

\* C5: in every state after a successful construction and any sequence of
\* eat_apple calls, successful or failing, color is a member of the cycle,
\* the color index is in 0..3 and the cycle's entry at the index is color.
C5_ColorConsistent ==
    snake # None =>
        /\ snake.color \in {"green", "yellow", "red", "blue"}
        /\ snake.color_index \in 0..3
        /\ snake.color_cycle = <<"green", "yellow", "red", "blue">>
        /\ snake.color_cycle[snake.color_index + 1] = snake.color

C5_Witness ==
    /\ snake # None
    /\ init.color_index = 3
    /\ feeds = 1
    /\ snake.color_index = 0
    /\ last.op = "eat_apple"
    /\ raised.type = "ValueError"

\* C6: construction raises ValueError exactly when the supplied color is not
\* one of green, yellow, red, blue, and then no object exists; otherwise it
\* succeeds with the color index equal to the position of the supplied color
\* in the cycle, and with color omitted the Snake is green with index 0.
C6_Construction ==
    last.op = "Snake" =>
        /\ raised.type \in {"none", "ValueError"}
        /\ (raised.type = "ValueError") <=>
             (/\ "color" \in DOMAIN last.kwargs
              /\ last.kwargs["color"] \notin {"green", "yellow", "red", "blue"})
        /\ raised.type = "ValueError" => snake = None
        /\ raised.type = "none" =>
             /\ snake # None
             /\ snake.length = last.kwargs["length"]
             /\ snake.girth = last.kwargs["girth"]
             /\ "color" \in DOMAIN last.kwargs =>
                  /\ snake.color = last.kwargs["color"]
                  /\ snake.color = "green" => snake.color_index = 0
                  /\ snake.color = "yellow" => snake.color_index = 1
                  /\ snake.color = "red" => snake.color_index = 2
                  /\ snake.color = "blue" => snake.color_index = 3
             /\ "color" \notin DOMAIN last.kwargs =>
                  (snake.color = "green" /\ snake.color_index = 0)

C6_Witness ==
    /\ last.op = "Snake"
    /\ "color" \in DOMAIN last.kwargs
    /\ last.kwargs["color"] = "purple"
    /\ raised.type = "ValueError"
    /\ snake = None

\* C9: reading description leaves length, girth, color and the color index
\* unchanged, raises nothing, and returns a sentence reporting exactly the
\* current length, girth and color.
C9_DescriptionPure ==
    [][last'.op = "description"
       => (/\ snake' = snake
           /\ raised' = NoError
           /\ feeds' = feeds
           /\ last'.ret = "The snake is now " \o ToString(snake'.length)
                          \o " units long, " \o ToString(snake'.girth)
                          \o " units around, and " \o snake'.color \o ".")]_vars

C9_Witness ==
    /\ last.op = "description"
    /\ feeds = 1
    /\ snake.length = 7 /\ snake.girth = 5 /\ snake.color = "yellow"
    /\ last.ret = "The snake is now 7 units long, 5 units around, and yellow."

----------------------------------------------------------------------------
(* Properties of run_simulation (RunSpec) *)

\* C7: run_simulation(apples=2, length_gain=1, girth_gain=1) prints, after
\* the initial line (length 5, girth 2, green), two lines showing length 6
\* then 7, girth 3 then 4 and the color yellow then red.
C7_TwoApples ==
    (pc = "done" /\ apples = 2 /\ length_gain = 1 /\ girth_gain = 1) =>
        output = <<"Initial: The snake is now 5 units long, 2 units around, and green.",
                   "After apple 1: The snake is now 6 units long, 3 units around, and yellow.",
                   "After apple 2: The snake is now 7 units long, 4 units around, and red.">>

C7_Witness ==
    /\ pc = "done"
    /\ apples = 2 /\ length_gain = 1 /\ girth_gain = 1
    /\ Len(output) = 3
    /\ snake.color = "red"

\* C8 as stated: whenever a negative length_gain or girth_gain is supplied,
\* for any apples count, the run never ends successfully, and when it fails
\* no 'After apple' line has been printed and the Snake is still at length 5,
\* girth 2, green.
C8_AnyApples ==
    (length_gain < 0 \/ girth_gain < 0) =>
        /\ pc # "done"
        /\ pc = "failed" =>
             /\ raised.type = "ValueError"
             /\ Len(output) = 1
             /\ snake.length = 5 /\ snake.girth = 2 /\ snake.color = "green"

\* C8 as amended: whenever a negative length_gain or girth_gain is supplied
\* and apples >= 1, the run ends in a propagated ValueError and never ends
\* successfully; when it fails only the initial line has been printed and the
\* Snake is still at length 5, girth 2, green.
C8_NegativeGainFails ==
    /\ []((/\ length_gain < 0 \/ girth_gain < 0
           /\ apples >= 1)
          => (/\ pc # "done"
              /\ pc = "failed" =>
                   /\ raised.type = "ValueError"
                   /\ output = <<"Initial: The snake is now 5 units long, 2 units around, and green.">>
                   /\ snake.length = 5 /\ snake.girth = 2
                   /\ snake.color = "green" /\ snake.color_index = 0
                   /\ feeds = 0))
    /\ ((/\ length_gain < 0 \/ girth_gain < 0
         /\ apples >= 1) ~> (pc = "failed"))

C8_Witness ==
    /\ pc = "failed"
    /\ length_gain >= 0 /\ girth_gain < 0
    /\ apples > 1
    /\ raised.type = "ValueError"
    /\ apple_number = 1

\* C10: for any integer apples and non-negative gains the run terminates
\* after exactly max(apples, 0) eat_apple calls, each followed by exactly one
\* printed description, numbered 1..apples in order, ending with
\* length = 5 + max(apples, 0) * length_gain,
\* girth = 2 + max(apples, 0) * girth_gain and the color at position
\* max(apples, 0) mod 4 of the cycle; with apples <= 0 only the initial
\* description is printed.
C10_Termination ==
    /\ []((length_gain >= 0 /\ girth_gain >= 0) =>
            LET n == IF apples > 0 THEN apples ELSE 0
            IN  /\ pc # "failed"
                /\ feeds <= n
                /\ Len(output) = (IF pc = "construct" THEN 0 ELSE 1) + feeds
                                 - (IF pc = "print" THEN 1 ELSE 0)
                /\ pc = "done" =>
                     /\ feeds = n
                     /\ snake.length = 5 + n * length_gain
                     /\ snake.girth = 2 + n * girth_gain
                     /\ snake.color = <<"green", "yellow", "red", "blue">>[(n % 4) + 1]
                     /\ Len(output) = n + 1
                     /\ output[1] =
                          "Initial: The snake is now 5 units long, 2 units around, and green."
                     /\ \A i \in 1..n :
                          output[i + 1] =
                            "After apple " \o ToString(i) \o ": The snake is now "
                            \o ToString(5 + i * length_gain) \o " units long, "
                            \o ToString(2 + i * girth_gain) \o " units around, and "
                            \o <<"green", "yellow", "red", "blue">>[(i % 4) + 1] \o ".")
    /\ ((length_gain >= 0 /\ girth_gain >= 0) ~> (pc = "done"))

C10_Witness ==
    /\ pc = "done"
    /\ apples = 5
    /\ length_gain = 2 /\ girth_gain = 0
    /\ feeds = 5
    /\ Len(output) = 6
    /\ snake.length = 15 /\ snake.girth = 2 /\ snake.color = "yellow"

====
